---------------------------- MODULE Spec2Model ----------------------------
(***************************************************************************)
(* Maintenance scripts of a static HTML site:                              *)
(*   bin/audit-pages.py             link / image / script audit            *)
(*   scripts/fix-paths.py           relative -> absolute path rewriting    *)
(*   scripts/fix-theme-toggle.py    theme-toggle snippet injection         *)
(*   scripts/integrate-components.py header/footer component integration   *)
(*                                                                         *)
(* Text is modelled as a sequence of tokens.  A reference (the value of an *)
(* href/src attribute) is a sequence of the tokens "/", a path segment or  *)
(* a scheme prefix, so that startswith / endswith / lstrip / path parsing  *)
(* are computed on it the way the code computes them on the string.        *)
(***************************************************************************)
EXTENDS Integers, Sequences, FiniteSets, TLC

VARIABLES
    fs,            \* resolver: the directory tree probed by is_dir / exists
    path,          \* resolver: the reference handed to check_file_exists
    current_file,  \* resolver: the document holding the reference
    rpc,           \* resolver: "call" before the call, then "returned" / "raised"
    joined,        \* resolver: local `resolved` right after normalize_path
    result,        \* resolver: the pair returned by check_file_exists
    first,         \* resolver: the pair returned by the first of two calls
    fs0,           \* resolver: the tree as the first of two calls found it
    script,        \* fix scripts: the script being run
    content,       \* fix scripts: the document on disk
    backup,        \* fix scripts: the script's backup file of the document
    original,      \* fix scripts: the document before the script's first run
    runs,          \* fix scripts: runs of the script so far
    processed,     \* fix scripts: some run has processed the document
    last,          \* fix scripts: what the last run did
    html_files,    \* batch: the documents main() enumerated, in loop order
    pages,         \* batch: each document's content on disk
    baks,          \* batch: each document's backup file
    site0,         \* batch: the documents' contents when the run started
    pos,           \* batch: index in html_files of the next document
    bpc,           \* batch: "loop", then "done" (summary printed) or "aborted"
    out,           \* batch: per document, what its iteration produced
    counts,        \* batch: total_issues, pages_with_issues, fixed_count
    report         \* batch: audit-report.json

rvars == <<fs, path, current_file, rpc, joined, result, first, fs0>>

fvars == <<script, content, backup, original, runs, processed, last>>

bvars == <<html_files, pages, baks, site0, pos, bpc, out, counts, report>>

vars == <<rvars, fvars, bvars>>

(***************************************************************************)
(* Bounds                                                                  *)
(***************************************************************************)
\* longest reference, in path segments
MaxSegs == 3

\* longest initial document, in text fragments
MaxLen == 3

\* most runs of one script over a document
MaxRuns == 3

\* most attributes in the documents of an audited site
MaxAttrs == 2

\* most text fragments in the documents of a site the fix scripts run over
MaxFrags == 2

(***************************************************************************)
(* Strings (token sequences)                                               *)
(***************************************************************************)
startswith(s, t) == Len(s) > 0 /\ s[1] = t

endswith(s, t) == Len(s) > 0 /\ s[Len(s)] = t

RECURSIVE lstrip(_, _)
lstrip(s, t) == IF startswith(s, t) THEN lstrip(Tail(s), t) ELSE s

RECURSIVE LeadingCount(_, _)
LeadingCount(s, t) == IF startswith(s, t) THEN 1 + LeadingCount(Tail(s), t) ELSE 0

(***************************************************************************)
(* pathlib: a path is an anchor ("" relative, "/" absolute, "//" the POSIX *)
(* two-slash root) and its parts.  Parsing drops empty components.         *)
(***************************************************************************)
RECURSIVE Parts(_)
Parts(s) ==
    IF s = <<>> THEN <<>>
    ELSE IF Head(s) = "/" THEN Parts(Tail(s))
    ELSE <<Head(s)>> \o Parts(Tail(s))

Anchor(s) ==
    LET n == LeadingCount(s, "/")
    IN  IF n = 0 THEN "" ELSE IF n = 2 THEN "//" ELSE "/"

\* Path(s)
PathOf(s) == [anchor |-> Anchor(s), parts |-> Parts(s)]

\* p / s ; an anchored right operand replaces the left one
PathJoin(p, s) ==
    IF Anchor(s) # "" THEN PathOf(s)
    ELSE [anchor |-> p.anchor, parts |-> p.parts \o Parts(s)]

\* p.parent
Parent(p) ==
    [anchor |-> p.anchor,
     parts  |-> IF p.parts = <<>> THEN <<>> ELSE SubSeq(p.parts, 1, Len(p.parts) - 1)]

\* p.name
Name(p) == IF p.parts = <<>> THEN "" ELSE p.parts[Len(p.parts)]

RECURSIVE Collapse(_, _)
Collapse(done, rest) ==
    IF rest = <<>> THEN done
    ELSE IF Head(rest) = ".."
         THEN Collapse(IF done = <<>> THEN <<>> ELSE SubSeq(done, 1, Len(done) - 1),
                       Tail(rest))
         ELSE Collapse(Append(done, Head(rest)), Tail(rest))

\* p.resolve() of an absolute path in a tree without symbolic links
resolve(p) == [anchor |-> "/", parts |-> Collapse(<<>>, p.parts)]

(***************************************************************************)
(* The site                                                                *)
(***************************************************************************)
SiteRoot == [anchor |-> "/", parts |-> <<"site">>]

IndexDoc == [anchor |-> "/", parts |-> <<"site", "index.html">>]
PageDoc  == [anchor |-> "/", parts |-> <<"site", "pages", "x", "index.html">>]

Documents == {IndexDoc, PageDoc}

\* entries every tree holds
FixedTree ==
    (<<"site">> :> "dir") @@ (<<"site", "index.html">> :> "file") @@
    (<<"site", "pages">> :> "dir") @@ (<<"site", "pages", "x">> :> "dir") @@
    (<<"site", "pages", "x", "index.html">> :> "file")

YDir   == <<"site", "pages", "y">>
YIndex == <<"site", "pages", "y", "index.html">>
YInner == <<"site", "pages", "y", "index.html", "index.html">>

\* the trees: pages/y absent, a file, a directory or a directory without
\* search permission ("locked"); below it index.html absent, a file or a
\* directory, which in turn holds an index.html or not
Trees ==
    {FixedTree, FixedTree @@ (YDir :> "file")} \cup
    UNION {
      { FixedTree @@ (YDir :> k),
        FixedTree @@ (YDir :> k) @@ (YIndex :> "file"),
        FixedTree @@ (YDir :> k) @@ (YIndex :> "dir"),
        FixedTree @@ (YDir :> k) @@ (YIndex :> "dir") @@ (YInner :> "file") }
      : k \in {"dir", "locked"} }

\* strict: pathlib re-raises EACCES from stat (Python up to 3.12);
\* otherwise the probe answers False (os.path.isdir / os.path.exists)
FileSystems == [tree : Trees, strict : BOOLEAN]

Kind(f, parts) ==
    IF parts = <<>> THEN "dir"
    ELSE IF parts \in DOMAIN f.tree THEN f.tree[parts] ELSE "absent"

\* stat(2): walk the components from the filesystem root; ".." is followed
\* physically, so every component before it must be a searchable directory
RECURSIVE Walk(_, _, _)
Walk(f, cur, rest) ==
    IF rest = <<>> THEN Kind(f, cur)
    ELSE IF Kind(f, cur) = "locked" THEN "EACCES"
    ELSE IF Kind(f, cur) # "dir" THEN "absent"
    ELSE Walk(f,
              IF Head(rest) = ".."
              THEN (IF cur = <<>> THEN <<>> ELSE SubSeq(cur, 1, Len(cur) - 1))
              ELSE Append(cur, Head(rest)),
              Tail(rest))

Stat(f, p) == Walk(f, <<>>, p.parts)

\* Path.is_dir(): "raise" stands for the exception leaving the call
is_dir(f, p) ==
    LET k == Stat(f, p)
    IN  IF k = "EACCES" THEN (IF f.strict THEN "raise" ELSE "false")
        ELSE IF k \in {"dir", "locked"} THEN "true" ELSE "false"

\* Path.exists()
exists(f, p) ==
    LET k == Stat(f, p)
    IN  IF k = "EACCES" THEN (IF f.strict THEN "raise" ELSE "false")
        ELSE IF k = "absent" THEN "false" ELSE "true"

(***************************************************************************)
(* audit-pages.py: the resolver                                            *)
(***************************************************************************)
\* both kinds of reference joined against the document's directory
normalize_path_file_relative(s, file, root) ==
    resolve(PathJoin(Parent(file), lstrip(s, "/")))

normalize_path(s, file, root) ==
    IF startswith(s, "/")
    THEN PathJoin(root, lstrip(s, "/"))
    ELSE resolve(PathJoin(Parent(file), s))

\* the trailing slash ignored
WithTrailingSlash_never(s, p) == p

\* lines 59-61
WithTrailingSlash(s, p) ==
    IF endswith(s, "/") THEN PathJoin(p, <<"index.html">>) ELSE p

\* the try body, lines 57-68
TryResolve(f, s, file, root) ==
    LET r0 == normalize_path(s, file, root)
        r1 == WithTrailingSlash(s, r0)
        d  == is_dir(f, r1)
        r2 == IF d = "true" THEN PathJoin(r1, <<"index.html">>) ELSE r1
        e  == IF d = "raise" THEN "raise" ELSE exists(f, r2)
    IN  [raised |-> e = "raise", exists |-> e = "true", resolved |-> r2]

\* the call without its except clause: the exception leaves the function
check_file_exists_unguarded(f, s, file, root) ==
    LET t == TryResolve(f, s, file, root)
    IN  [propagated |-> t.raised, caught |-> FALSE,
         exists |-> t.exists, resolved |-> t.resolved]

\* exists / resolved are the returned pair; caught tells that the except
\* clause produced it, propagated that an exception left the function
check_file_exists(f, s, file, root) ==
    LET t == TryResolve(f, s, file, root)
    IN  IF t.raised
        THEN [propagated |-> FALSE, caught |-> TRUE,
              exists |-> FALSE, resolved |-> PathOf(s)]
        ELSE [propagated |-> FALSE, caught |-> FALSE,
              exists |-> t.exists, resolved |-> t.resolved]

(***************************************************************************)
(* References                                                              *)
(***************************************************************************)
SegNames == {"..", "pages", "y", "index.html", "missing.html"}

RECURSIVE SeqsUpTo(_, _)
SeqsUpTo(S, n) ==
    IF n = 0 THEN {<<>>}
    ELSE LET shorter == SeqsUpTo(S, n - 1)
         IN  shorter \cup {Append(q, e) : q \in shorter, e \in S}

RECURSIVE JoinSegs(_)
JoinSegs(segs) ==
    IF segs = <<>> THEN <<>>
    ELSE IF Len(segs) = 1 THEN segs
    ELSE <<Head(segs), "/">> \o JoinSegs(Tail(segs))

Slashes(n) == [i \in 1..n |-> "/"]

PathRefs ==
    { Slashes(lead) \o JoinSegs(segs) \o (IF trail THEN <<"/">> ELSE <<>>) :
        lead \in 0..2, segs \in SeqsUpTo(SegNames, MaxSegs), trail \in BOOLEAN }
    \ {<<>>}

NoPath == [anchor |-> "", parts |-> <<>>]
NoResult == [propagated |-> FALSE, caught |-> FALSE, exists |-> FALSE, resolved |-> NoPath]


(***************************************************************************)
(* Documents of the fix scripts.  A document is a sequence of fragments:   *)
(*   HEADER_OPEN   <header ...>          HEADER_CLOSE  </header>           *)
(*   FOOTER_OPEN   <footer ...>          FOOTER_CLOSE  </footer>           *)
(*   LC_HEADER     <!-- Header Component --> <lc-header></lc-header>       *)
(*   LC_FOOTER     <!-- Footer Component --> <lc-footer></lc-footer>       *)
(*   BODY_CLOSE    </body>                                                 *)
(*   COMPONENT_SCRIPT  the <!-- Component System --> script block          *)
(*   REAPPLY       // Re-apply i18n translations to components             *)
(*                 if (window.applyTranslations) { ... } and a blank line  *)
(*   THEME         // Setup theme toggle ... if (window.setupThemeToggle)  *)
(*                 { ... } and a blank line                                *)
(*   LANG          // Setup language toggle                                *)
(*   CSS_REL       href="../styles/style.css"   CSS_ABS  href="/styles/style.css" *)
(*   JS_REL        src="../scripts/theme.js"    JS_ABS   src="/scripts/theme.js"  *)
(*   CONTACT_REL   href="contact.html"   CONTACT_ABS  href="/pages/contact/"      *)
(*   TEXT          any other text                                          *)
(***************************************************************************)
FixScripts == {"fix-paths", "fix-theme-toggle", "integrate-components"}

Alphabet(sc) ==
    IF sc = "fix-paths" THEN {"CSS_REL", "JS_REL", "CONTACT_REL", "TEXT"}
    ELSE IF sc = "fix-theme-toggle" THEN {"REAPPLY", "LANG", "TEXT"}
    ELSE {"HEADER_OPEN", "HEADER_CLOSE", "FOOTER_OPEN", "FOOTER_CLOSE",
          "BODY_CLOSE", "COMPONENT_SCRIPT", "TEXT"}

\* the literal needles a fragment contains
Needles(tok) ==
    IF tok = "COMPONENT_SCRIPT" THEN {"Component System", "lc-header.js"}
    ELSE IF tok = "CONTACT_REL" THEN {"contact.html"}
    ELSE {}

\* needle in text
Contains(text, needle) == \E i \in 1..Len(text) : needle \in Needles(text[i])

\* least index of tok in text, 0 if none
RECURSIVE IndexOf(_, _)
IndexOf(text, tok) ==
    IF text = <<>> THEN 0
    ELSE IF Head(text) = tok THEN 1
    ELSE LET k == IndexOf(Tail(text), tok) IN IF k = 0 THEN 0 ELSE k + 1

\* str.replace(tok, by): every occurrence
RECURSIVE Replace(_, _, _)
Replace(text, tok, by) ==
    IF text = <<>> THEN <<>>
    ELSE (IF Head(text) = tok THEN by ELSE <<Head(text)>>) \o Replace(Tail(text), tok, by)

\* re.search of  open.*?close  (DOTALL)
SearchPair(text, open, close) ==
    \E i \in 1..Len(text) : \E j \in (i + 1)..Len(text) :
        text[i] = open /\ text[j] = close

\* re.sub of  open.*?close  (DOTALL): leftmost matches, each as short as possible
RECURSIVE SubPair(_, _, _, _)
SubPair(text, open, close, by) ==
    IF text = <<>> THEN <<>>
    ELSE LET k == IndexOf(Tail(text), close)
         IN  IF Head(text) = open /\ k > 0
             THEN by \o SubPair(SubSeq(Tail(text), k + 1, Len(text) - 1), open, close, by)
             ELSE <<Head(text)>> \o SubPair(Tail(text), open, close, by)

NoFile == [exists |-> FALSE, text |-> <<>>]
File(text) == [exists |-> TRUE, text |-> text]

\* what one run over one document did
Outcome(text, bak, ret, computed, failed, wroteBackup, wroteDoc) ==
    [content |-> text, backup |-> bak, ret |-> ret, computed |-> computed,
     failed |-> failed, wroteBackup |-> wroteBackup, wroteDoc |-> wroteDoc]

Faults == {"none", "read", "backup", "write"}

(***************************************************************************)
(* fix-paths.py                                                            *)
(***************************************************************************)
FixPathsSubs(text, file) ==
    LET css == Replace(text, "CSS_REL", <<"CSS_ABS">>)
        js  == Replace(css, "JS_REL", <<"JS_ABS">>)
    IN  IF Contains(js, "contact.html") /\ Name(file) = "index.html"
        THEN Replace(js, "CONTACT_REL", <<"CONTACT_ABS">>)
        ELSE js

\* backup unconditionally rewritten
WriteBackup_always(bak, text, fault) ==
    IF fault = "backup" THEN [failed |-> TRUE, backup |-> bak, wrote |-> FALSE]
    ELSE [failed |-> FALSE, backup |-> File(text), wrote |-> TRUE]

\* if not backup_path.exists(): backup_path.write_text(original_content)
WriteBackup(bak, text, fault) ==
    IF bak.exists THEN [failed |-> FALSE, backup |-> bak, wrote |-> FALSE]
    ELSE IF fault = "backup" THEN [failed |-> TRUE, backup |-> bak, wrote |-> FALSE]
    ELSE [failed |-> FALSE, backup |-> File(text), wrote |-> TRUE]

\* backup, then file_path.write_text(content), then return True
BackupThenWrite(text, bak, new, fault) ==
    LET b == WriteBackup(bak, text, fault)
    IN  IF b.failed
        THEN Outcome(text, bak, FALSE, new, TRUE, FALSE, FALSE)
        ELSE IF fault = "write"
        THEN Outcome(text, b.backup, FALSE, new, TRUE, b.wrote, FALSE)
        ELSE Outcome(new, b.backup, TRUE, new, FALSE, b.wrote, TRUE)

fix_paths_in_file(text, bak, file, fault) ==
    IF fault = "read" THEN Outcome(text, bak, FALSE, text, TRUE, FALSE, FALSE)
    ELSE LET new == FixPathsSubs(text, file)
         IN  IF new # text
             THEN BackupThenWrite(text, bak, new, fault)
             ELSE Outcome(text, bak, FALSE, new, FALSE, FALSE, FALSE)

(***************************************************************************)
(* fix-theme-toggle.py                                                     *)
(***************************************************************************)
\* the fragment ends in  }  followed by a blank line
EndsBlock(tok) == tok \in {"REAPPLY", "THEME"}

\* least j such that text[j] ends a block and text[j+1] is LANG, 0 if none
RECURSIVE BlockBeforeLang(_, _)
BlockBeforeLang(text, j) ==
    IF j + 1 > Len(text) THEN 0
    ELSE IF EndsBlock(text[j]) /\ text[j + 1] = "LANG" THEN j
    ELSE BlockBeforeLang(text, j + 1)

\* old_pattern.sub(new_text, content)
RECURSIVE SubTheme(_)
SubTheme(text) ==
    IF text = <<>> THEN <<>>
    ELSE LET j == IF Head(text) = "REAPPLY" THEN BlockBeforeLang(text, 1) ELSE 0
         IN  IF j > 0
             THEN SubSeq(text, 1, j) \o <<"THEME", "LANG">>
                  \o SubTheme(SubSeq(text, j + 2, Len(text)))
             ELSE <<Head(text)>> \o SubTheme(Tail(text))

fix_theme_toggle(text, bak, fault) ==
    IF fault = "read" THEN Outcome(text, bak, FALSE, text, TRUE, FALSE, FALSE)
    ELSE LET new == SubTheme(text)
         IN  IF new # text
             THEN BackupThenWrite(text, bak, new, fault)
             ELSE Outcome(text, bak, FALSE, new, FALSE, FALSE, FALSE)

(***************************************************************************)
(* integrate-components.py                                                 *)
(***************************************************************************)
replace_header(text) ==
    IF SearchPair(text, "HEADER_OPEN", "HEADER_CLOSE")
    THEN [content |-> SubPair(text, "HEADER_OPEN", "HEADER_CLOSE", <<"LC_HEADER">>),
          replaced |-> TRUE]
    ELSE [content |-> text, replaced |-> FALSE]

replace_footer(text) ==
    IF SearchPair(text, "FOOTER_OPEN", "FOOTER_CLOSE")
    THEN [content |-> SubPair(text, "FOOTER_OPEN", "FOOTER_CLOSE", <<"LC_FOOTER">>),
          replaced |-> TRUE]
    ELSE [content |-> text, replaced |-> FALSE]

add_component_scripts(text) ==
    IF Contains(text, "Component System") \/ Contains(text, "lc-header.js")
    THEN [content |-> text, added |-> FALSE]
    ELSE [content |-> Replace(text, "BODY_CLOSE", <<"COMPONENT_SCRIPT", "BODY_CLOSE">>),
          added |-> TRUE]

\* backup_file(file_path): the document is read again and copied
backup_file(bak, text, fault) == WriteBackup(bak, text, fault)

integrate_components(text, bak, fault) ==
    IF fault = "read" THEN Outcome(text, bak, FALSE, text, TRUE, FALSE, FALSE)
    ELSE LET h == replace_header(text)
             f == replace_footer(h.content)
             a == add_component_scripts(f.content)
             changes_made == h.replaced \/ f.replaced \/ a.added
         IN  IF changes_made
             THEN LET b == backup_file(bak, text, fault)
                  IN  IF b.failed
                      THEN Outcome(text, bak, FALSE, a.content, TRUE, FALSE, FALSE)
                      ELSE IF fault = "write"
                      THEN Outcome(text, b.backup, FALSE, a.content, TRUE, b.wrote, FALSE)
                      ELSE Outcome(a.content, b.backup, TRUE, a.content, FALSE, b.wrote, TRUE)
             ELSE Outcome(text, bak, FALSE, a.content, FALSE, FALSE, FALSE)

\* one script applied to one document
RunScript(sc, text, bak, file, fault) ==
    IF sc = "fix-paths" THEN fix_paths_in_file(text, bak, file, fault)
    ELSE IF sc = "fix-theme-toggle" THEN fix_theme_toggle(text, bak, fault)
    ELSE integrate_components(text, bak, fault)

(***************************************************************************)
(* audit-pages.py: extraction.  A document is a set of attributes, each of *)
(* kind "href" (href="..."), "src" (src="..." outside a script tag) or     *)
(* "script" (<script ... src="...">), holding a reference.  A reference    *)
(* may open with a scheme fragment: http: https: # javascript: mailto:     *)
(* tel: data:                                                              *)
(***************************************************************************)
\* the prefixes tested by the code that the fragment's text starts with
TextPrefixes(tok) ==
    IF tok \in {"http:", "https:"} THEN {"http"}
    ELSE IF tok \in {"#", "javascript:", "mailto:", "tel:", "data:"} THEN {tok}
    ELSE {}

\* str.startswith(tuple of prefixes)
StartsWithAny(s, prefixes) == Len(s) > 0 /\ TextPrefixes(s[1]) \cap prefixes # {}

find_all_links(text) ==
    {e.value : e \in {x \in text : /\ x.kind = "href"
                                   /\ ~StartsWithAny(x.value,
                                        {"http", "#", "javascript:", "mailto:", "tel:"})}}

\* src=... matches inside script tags too
find_all_images(text) ==
    {e.value : e \in {x \in text : /\ x.kind \in {"src", "script"}
                                   /\ ~StartsWithAny(x.value, {"http", "data:"})}}

find_all_scripts(text) ==
    {e.value : e \in {x \in text : /\ x.kind = "script"
                                   /\ ~StartsWithAny(x.value, {"http"})}}

\* sub in s, for token sequences
HasSub(s, sub) ==
    \E k \in 0..(Len(s) - Len(sub)) : SubSeq(s, k + 1, k + Len(sub)) = sub

\* needle in content: the attribute values are part of the text
InContent(text, sub) == \E e \in text : HasSub(e.value, sub)

Missing(f, refs, file, root) ==
    {[ref |-> r, resolved |-> check_file_exists(f, r, file, root).resolved] :
        r \in {x \in refs : ~check_file_exists(f, x, file, root).exists}}

PathIssues(text) ==
    (IF InContent(text, <<"..", "/", "components", "/">>) THEN {"components"} ELSE {})
    \cup
    (IF InContent(text, <<"..", "/", "tools", "/">>) THEN {"tools"} ELSE {})

NoIssues ==
    [broken_links |-> {}, missing_images |-> {}, missing_scripts |-> {},
     path_issues |-> {}, error |-> FALSE, propagated |-> FALSE,
     handed |-> {}]

\* the except clause of a per-document function lets the exception through
Caught_reraise(issues) == [issues EXCEPT !.propagated = TRUE]

\* except Exception as e: issues['error'] = str(e)
Caught(issues) == [issues EXCEPT !.error = TRUE]

\* handed: the references passed to check_file_exists
audit_page(text, file, f, root, fault) ==
    IF fault = "read" THEN Caught(NoIssues)
    ELSE LET links   == find_all_links(text)
             images  == find_all_images(text)
             scripts == find_all_scripts(text)
         IN  [broken_links    |-> Missing(f, links, file, root),
              missing_images  |-> Missing(f, images, file, root),
              missing_scripts |-> Missing(f, scripts, file, root),
              path_issues     |-> PathIssues(text),
              error |-> FALSE, propagated |-> FALSE,
              handed |-> links \cup images \cup scripts]

\* lines 148-153
IssueCount(issues) ==
    Cardinality(issues.broken_links) + Cardinality(issues.missing_images)
    + Cardinality(issues.missing_scripts) + Cardinality(issues.path_issues)

\* every document counted as a page with issues
Tally_every_page(c, n) ==
    [c EXCEPT !.pages_with_issues = @ + 1, !.total_issues = @ + n]

\* lines 155-157
Tally(c, n) ==
    IF n > 0
    THEN [c EXCEPT !.pages_with_issues = @ + 1, !.total_issues = @ + n]
    ELSE c

(***************************************************************************)
(* Sites of the batch runs                                                 *)
(***************************************************************************)
ContactDoc == [anchor |-> "/", parts |-> <<"site", "pages", "contact", "index.html">>]

Scripts == FixScripts \cup {"audit-pages"}

\* main(): root index.html first for audit-pages and fix-paths, then pages/**
SiteDocs(sc) ==
    IF sc \in {"audit-pages", "fix-paths"} THEN {IndexDoc, PageDoc}
    ELSE {PageDoc, ContactDoc}

Orders(D) == {q \in [1..Cardinality(D) -> D] : \A d \in D : \E k \in DOMAIN q : q[k] = d}

Schemes == {"http:", "https:", "#", "javascript:", "mailto:", "tel:", "data:"}

SchemeRefs ==
    {<<sch, "x">> : sch \in Schemes \ {"http:", "https:"}}
    \cup {<<sch, "/", "/", "x">> : sch \in {"http:", "https:"}}

RefComponents == <<"..", "/", "components", "/", "x">>
RefPagesY     == <<"/", "pages", "/", "y", "/">>
RefMissing    == <<"..", "/", "..", "/", "missing.html">>

Kinds == {"href", "src", "script"}

\* attributes of the one-document audit
PageAttrs == [kind : Kinds, value : SchemeRefs \cup {RefPagesY, RefMissing}]

\* attributes of the batch audit
SiteAttrs == [kind : Kinds, value : {<<"https:", "/", "/", "x">>, RefPagesY, RefMissing, RefComponents}]

RECURSIVE SetsUpTo(_, _)
SetsUpTo(S, n) ==
    IF n = 0 THEN {{}}
    ELSE LET smaller == SetsUpTo(S, n - 1)
         IN  smaller \cup {T \cup {e} : T \in smaller, e \in S}

RECURSIVE Sum(_, _)
Sum(f, D) ==
    IF D = {} THEN 0
    ELSE LET d == CHOOSE x \in D : TRUE IN f[d] + Sum(f, D \ {d})

NoOut == [done |-> FALSE, fault |-> "none", ret |-> FALSE, error |-> FALSE,
          issues |-> NoIssues]

NoCounts == [total_issues |-> 0, pages_with_issues |-> 0, fixed_count |-> 0]
NoReport == [written |-> FALSE, total_pages |-> 0, pages_with_issues |-> 0, total_issues |-> 0]

BatchIdle ==
    /\ html_files = <<>>
    /\ pages = <<>>
    /\ baks = <<>>
    /\ site0 = <<>>
    /\ pos = 0
    /\ bpc = "idle"
    /\ out = <<>>
    /\ counts = NoCounts
    /\ report = NoReport

(***************************************************************************)
(* Fix specification: repeated runs of one script over one document, each  *)
(* run with or without an I/O failure.                                     *)
(***************************************************************************)
NoRun ==
    [before |-> <<>>, backupBefore |-> NoFile, processedBefore |-> FALSE,
     ret |-> FALSE, computed |-> <<>>, failed |-> FALSE,
     wroteBackup |-> FALSE, wroteDoc |-> FALSE]

FixIdle ==
    /\ content = <<>>
    /\ backup = NoFile
    /\ original = <<>>
    /\ runs = 0
    /\ processed = FALSE
    /\ last = NoRun

CallIdle ==
    /\ path = <<"/">>
    /\ current_file = PageDoc
    /\ rpc = "idle"
    /\ joined = NoPath
    /\ result = NoResult
    /\ first = NoResult
    /\ fs0 = [tree |-> FixedTree, strict |-> TRUE]

ResolveIdle ==
    /\ fs = [tree |-> FixedTree, strict |-> TRUE]
    /\ CallIdle

InitFix ==
    /\ ResolveIdle
    /\ BatchIdle
    /\ script \in FixScripts
    /\ content \in SeqsUpTo(Alphabet(script), MaxLen)
    /\ backup = NoFile
    /\ original = content
    /\ runs = 0
    /\ processed = FALSE
    /\ last = NoRun

RunFix(fault) ==
    /\ script \in FixScripts
    /\ runs < MaxRuns
    /\ LET o == RunScript(script, content, backup, PageDoc, fault)
       IN  /\ content' = o.content
           /\ backup' = o.backup
           /\ last' = [before |-> content, backupBefore |-> backup,
                       processedBefore |-> processed,
                       ret |-> o.ret, computed |-> o.computed, failed |-> o.failed,
                       wroteBackup |-> o.wroteBackup, wroteDoc |-> o.wroteDoc]
           /\ processed' = (processed \/ ~o.failed)
    /\ runs' = runs + 1
    /\ UNCHANGED <<script, original>>
    /\ UNCHANGED <<rvars, bvars>>

NextFix == \E fault \in Faults : RunFix(fault)

SpecFix == InitFix /\ [][NextFix]_vars

(***************************************************************************)
(* Fix script properties                                                   *)
(***************************************************************************)
\* C1: once a run has processed the document, a further run of the same
\* script leaves its content unchanged, returns False and creates no backup.
C1_Idempotent ==
    (runs >= 2 /\ last.processedBefore /\ ~last.failed) =>
      /\ content = last.before
      /\ ~last.ret
      /\ ~last.wroteBackup

\* C2: the backup and the document are written only if the substitutions
\* changed the content; when the computed content equals the content read,
\* neither is written and the run returns False.
C2_WritesOnlyOnChange ==
    runs >= 1 =>
      /\ (last.wroteBackup \/ last.wroteDoc) => last.computed # last.before
      /\ (~last.failed /\ last.computed = last.before) =>
           (~last.wroteBackup /\ ~last.wroteDoc /\ ~last.ret)

\* C3: the backup is written before the document is overwritten and is
\* never changed once it exists: it holds the document as it was before the
\* script's first changing run, and a changed document always has one.
C3_BackupKeepsOriginal ==
    script \in FixScripts =>
      /\ backup.exists => backup.text = original
      /\ content # original => backup.exists
      /\ last.backupBefore.exists => backup = last.backupBefore
      /\ last.wroteDoc => backup.exists

C3_Witness ==
    /\ runs >= 2
    /\ last.wroteDoc
    /\ last.backupBefore.exists
    /\ last.before # original
    /\ content # last.before
    /\ backup.text = original

(***************************************************************************)
(* Resolver specification: one call of check_file_exists on any reference, *)
(* document and tree.                                                      *)
(***************************************************************************)
InitResolve ==
    /\ script = "none"
    /\ FixIdle
    /\ BatchIdle
    /\ fs \in FileSystems
    /\ path \in PathRefs
    /\ current_file \in Documents
    /\ rpc = "call"
    /\ joined = NoPath
    /\ result = NoResult
    /\ first = NoResult
    /\ fs0 = fs

CallCheckFileExists ==
    /\ rpc = "call"
    /\ joined' = normalize_path(path, current_file, SiteRoot)
    /\ result' = check_file_exists(fs, path, current_file, SiteRoot)
    /\ rpc' = IF result'.propagated THEN "raised" ELSE "returned"
    /\ UNCHANGED <<fs, path, current_file, first, fs0>>
    /\ UNCHANGED <<fvars, bvars>>

NextResolve == CallCheckFileExists

SpecResolve == InitResolve /\ [][NextResolve]_vars

(***************************************************************************)
(* Two calls of check_file_exists with the same reference, document and    *)
(* site root.  The site is on disk: between the calls its tree may be      *)
(* edited (a later audit run, another process); the interpreter stays.     *)
(***************************************************************************)
\* a call that leaves a file behind in the site root
Probed_creates(f) ==
    [f EXCEPT !.tree = (<<"site", "missing.html">> :> "file") @@ @]

\* the tree after the call: normalize_path and check_file_exists only call
\* resolve(), is_dir() and exists(), none of which writes
Probed(f) == f

PureRefs ==
    { Slashes(lead) \o JoinSegs(segs) \o (IF trail THEN <<"/">> ELSE <<>>) :
        lead \in 0..1, segs \in SeqsUpTo(SegNames, MaxSegs - 1), trail \in BOOLEAN }
    \ {<<>>}

InitPure ==
    /\ script = "none"
    /\ FixIdle
    /\ BatchIdle
    /\ fs \in FileSystems
    /\ path \in PureRefs
    /\ current_file \in Documents
    /\ rpc = "call"
    /\ joined = NoPath
    /\ result = NoResult
    /\ first = NoResult
    /\ fs0 = fs

FirstCall ==
    /\ rpc = "call"
    /\ joined' = normalize_path(path, current_file, SiteRoot)
    /\ result' = check_file_exists(fs, path, current_file, SiteRoot)
    /\ first' = result'
    /\ fs0' = fs
    /\ fs' = Probed(fs)
    /\ rpc' = "again"
    /\ UNCHANGED <<path, current_file>>
    /\ UNCHANGED <<fvars, bvars>>

\* the site is edited between the calls
SiteChanges ==
    /\ rpc = "again"
    /\ \E t \in Trees \ {fs.tree} : fs' = [fs EXCEPT !.tree = t]
    /\ UNCHANGED <<path, current_file, rpc, joined, result, first, fs0>>
    /\ UNCHANGED <<fvars, bvars>>

SecondCall ==
    /\ rpc = "again"
    /\ joined' = normalize_path(path, current_file, SiteRoot)
    /\ result' = check_file_exists(fs, path, current_file, SiteRoot)
    /\ fs' = Probed(fs)
    /\ rpc' = IF result'.propagated THEN "raised" ELSE "returned"
    /\ UNCHANGED <<path, current_file, first, fs0>>
    /\ UNCHANGED <<fvars, bvars>>

NextPure == FirstCall \/ SiteChanges \/ SecondCall

SpecPure == InitPure /\ [][NextPure]_vars


(***************************************************************************)
(* Batch specification: one run of main() of any of the four scripts over  *)
(* a site, the documents taken in any order, each read or write with or    *)
(* without an I/O failure.                                                 *)
(***************************************************************************)
BatchStart(D) ==
    /\ html_files \in Orders(D)
    /\ site0 = pages
    /\ baks = [d \in D |-> NoFile]
    /\ pos = 1
    /\ bpc = "loop"
    /\ out = [d \in D |-> NoOut]
    /\ counts = NoCounts
    /\ report = NoReport

InitAuditSite ==
    /\ FixIdle
    /\ CallIdle
    /\ script = "audit-pages"
    /\ fs \in {[tree |-> FixedTree, strict |-> TRUE],
               [tree |-> FixedTree @@ (YDir :> "dir") @@ (YIndex :> "file"), strict |-> TRUE]}
    /\ pages \in {pg \in [SiteDocs("audit-pages") -> SetsUpTo(SiteAttrs, MaxAttrs)] :
                    Sum([d \in DOMAIN pg |-> Cardinality(pg[d])], DOMAIN pg) <= MaxAttrs}
    /\ BatchStart(SiteDocs("audit-pages"))

InitFixSite ==
    /\ ResolveIdle
    /\ FixIdle
    /\ script \in FixScripts
    /\ pages \in {pg \in [SiteDocs(script) -> SeqsUpTo(Alphabet(script), MaxFrags)] :
                    Sum([d \in DOMAIN pg |-> Len(pg[d])], DOMAIN pg) <= MaxFrags}
    /\ BatchStart(SiteDocs(script))

\* one document of scope: audit_page on any attributes, schemes included
InitPage ==
    /\ FixIdle
    /\ CallIdle
    /\ script = "audit-pages"
    /\ fs = [tree |-> FixedTree @@ (YDir :> "dir") @@ (YIndex :> "file"), strict |-> TRUE]
    /\ pages \in [{PageDoc} -> SetsUpTo(PageAttrs, MaxAttrs)]
    /\ BatchStart({PageDoc})

\* audit-pages.py main(), one iteration of the loop (lines 143-188)
AuditFile(fault) ==
    /\ bpc = "loop"
    /\ script = "audit-pages"
    /\ pos <= Len(html_files)
    /\ LET d == html_files[pos]
           issues == audit_page(pages[d], d, fs, SiteRoot, fault)
       IN  IF issues.propagated
           THEN /\ bpc' = "aborted"
                /\ UNCHANGED <<out, counts, pos>>
           ELSE /\ out' = [out EXCEPT ![d] =
                             [done |-> TRUE, fault |-> fault, ret |-> FALSE,
                              error |-> issues.error, issues |-> issues]]
                /\ counts' = Tally(counts, IssueCount(issues))
                /\ pos' = pos + 1
                /\ bpc' = bpc
    /\ UNCHANGED <<html_files, pages, baks, site0, report>>
    /\ UNCHANGED <<rvars, fvars>>

\* the loop of a fix script's main(): if fix(file_path): fixed_count += 1
FixFile(fault) ==
    /\ bpc = "loop"
    /\ script \in FixScripts
    /\ pos <= Len(html_files)
    /\ LET d == html_files[pos]
           o == RunScript(script, pages[d], baks[d], d, fault)
           e == IF o.failed THEN Caught(NoIssues) ELSE NoIssues
       IN  IF e.propagated
           THEN /\ bpc' = "aborted"
                /\ UNCHANGED <<out, counts, pos, pages, baks>>
           ELSE /\ pages' = [pages EXCEPT ![d] = o.content]
                /\ baks' = [baks EXCEPT ![d] = o.backup]
                /\ out' = [out EXCEPT ![d] =
                             [done |-> TRUE, fault |-> fault, ret |-> o.ret,
                              error |-> e.error, issues |-> NoIssues]]
                /\ counts' = [counts EXCEPT !.fixed_count = @ + (IF o.ret THEN 1 ELSE 0)]
                /\ pos' = pos + 1
                /\ bpc' = bpc
    /\ UNCHANGED <<html_files, site0, report>>
    /\ UNCHANGED <<rvars, fvars>>

\* after the loop: the summary lines, and audit-report.json (lines 190-203)
Summary ==
    /\ bpc = "loop"
    /\ pos > Len(html_files)
    /\ bpc' = "done"
    /\ report' = IF script = "audit-pages"
                 THEN [written |-> TRUE, total_pages |-> Len(html_files),
                       pages_with_issues |-> counts.pages_with_issues,
                       total_issues |-> counts.total_issues]
                 ELSE report
    /\ UNCHANGED <<html_files, pages, baks, site0, pos, out, counts>>
    /\ UNCHANGED <<rvars, fvars>>

Init == InitAuditSite \/ InitFixSite

Next ==
    \/ \E fault \in {"none", "read"} : AuditFile(fault)
    \/ \E fault \in Faults : FixFile(fault)
    \/ Summary

Spec == Init /\ [][Next]_vars

NextPage ==
    \/ \E fault \in {"none", "read"} : AuditFile(fault)
    \/ Summary

SpecPage == InitPage /\ [][NextPage]_vars

(***************************************************************************)
(* Batch properties                                                        *)
(***************************************************************************)
\* what the iteration over d yields when d is processed alone, unfailed
AloneIssues(d) == audit_page(site0[d], d, fs, SiteRoot, "none")
AloneFix(d) == RunScript(script, site0[d], NoFile, d, "none")

\* the state part of C8
IsolationInv ==
    bpc # "idle" =>
      /\ bpc \in {"loop", "done"}
      /\ \A k \in 1..Len(html_files) :
           LET d == html_files[k]
           IN  IF k < pos
               THEN /\ out[d].done
                    /\ out[d].fault = "read" => out[d].error
                    /\ out[d].error => (pages[d] = site0[d] /\ ~out[d].ret
                                        /\ IssueCount(out[d].issues) = 0)
                    /\ ~out[d].error =>
                         IF script = "audit-pages"
                         THEN out[d].issues = AloneIssues(d)
                         ELSE /\ out[d].ret = AloneFix(d).ret
                              /\ pages[d] = AloneFix(d).content
                              /\ baks[d] = AloneFix(d).backup
               ELSE /\ ~out[d].done
                    /\ pages[d] = site0[d]
                    /\ baks[d] = NoFile
      /\ bpc = "done" => pos = Len(html_files) + 1
      /\ bpc = "loop" => (pos <= Len(html_files) + 1 /\ script \in Scripts)

\* every step of a run takes the loop to its next document or prints the summary
Advances ==
    \/ (bpc' = "loop" /\ pos' = pos + 1 /\ pos <= Len(html_files))
    \/ (bpc' = "done" /\ pos' = pos /\ pos = Len(html_files) + 1)

\* C8: a failure while reading or processing one document is caught and
\* recorded for that document; every other document is processed with the
\* result it has when processed alone; the run never aborts and each of its
\* steps advances to the next document or to the final summary.
C8_Isolation == []IsolationInv /\ [][Advances]_vars

C8_Witness ==
    /\ bpc = "done"
    /\ Len(html_files) = 2
    /\ out[html_files[1]].error
    /\ ~out[html_files[2]].error
    /\ out[html_files[2]].ret \/ IssueCount(out[html_files[2]].issues) > 0

\* C9: every reference handed to the resolver is non-empty, is no http(s)
\* URL, no fragment-only anchor, and has no javascript:, mailto:, tel: or
\* data: scheme.
C9_HandedFiltered ==
    bpc # "idle" =>
      \A d \in DOMAIN out : \A r \in out[d].issues.handed :
          /\ Len(r) > 0
          /\ r[1] \notin {"http:", "https:"}
          /\ r[1] \notin {"#", "javascript:", "mailto:", "tel:", "data:"}

\* issues of a document, from the site alone
IssuesOf(d) == IF out[d].fault = "read" THEN 0 ELSE IssueCount(AloneIssues(d))

\* C10: at the end of an audit run total_pages is the number of documents,
\* pages_with_issues the number of documents with at least one issue,
\* total_issues the sum of the documents' issue counts, whatever the order
\* of the documents; so pages_with_issues <= total_pages and <= total_issues.
C10_Counters ==
    (bpc = "done" /\ script = "audit-pages") =>
      LET D == DOMAIN pages
      IN  /\ report.written
          /\ report.total_pages = Cardinality(D)
          /\ report.pages_with_issues = Cardinality({d \in D : IssuesOf(d) > 0})
          /\ report.total_issues = Sum([d \in D |-> IssuesOf(d)], D)
          /\ report.pages_with_issues <= report.total_pages
          /\ report.pages_with_issues <= report.total_issues

C10_Witness ==
    /\ bpc = "done"
    /\ script = "audit-pages"
    /\ report.total_pages = 2
    /\ report.pages_with_issues = 1
    /\ report.total_issues >= 2

(***************************************************************************)
(* Resolver properties                                                     *)
(***************************************************************************)
Present(f, p) == Stat(f, p) \in {"file", "dir", "locked"}

RefUpUpY   == <<"..", "/", "..", "/", "y", "/">>

\* C4: a reference starting with "/" is joined to the site root, whatever
\* the document; any other reference is joined to the document's directory
\* and made absolute with its ".." segments resolved; neither branch falls
\* back to the other.
C4_TwoBranches ==
    rpc # "call" =>
      /\ startswith(path, "/") =>
           joined = [anchor |-> "/", parts |-> SiteRoot.parts \o Parts(path)]
      /\ ~startswith(path, "/") =>
           /\ joined = [anchor |-> "/",
                        parts  |-> Collapse(<<>>, Parent(current_file).parts \o Parts(path))]
           /\ \A i \in 1..Len(joined.parts) : joined.parts[i] # ".."
      /\ (path = RefMissing /\ current_file = PageDoc) =>
           /\ result.resolved = [anchor |-> "/", parts |-> <<"site", "missing.html">>]
           /\ ~result.exists
      /\ (path = RefUpUpY /\ current_file = PageDoc) =>
           result.resolved = [anchor |-> "/", parts |-> <<"site", "y", "index.html">>]

C4_Witness ==
    /\ rpc = "returned"
    /\ path = RefMissing
    /\ current_file = PageDoc
    /\ result.resolved.parts = <<"site", "missing.html">>
    /\ ~result.exists

\* C5 as stated: every reference ending in "/" yields a path whose last
\* segment is index.html, whatever the tree; /pages/y/ with
\* pages/y/index.html present is reported as existing.
C5_AlwaysIndex ==
    rpc # "call" =>
      /\ endswith(path, "/") => Name(result.resolved) = "index.html"
      /\ (path = RefPagesY /\ Kind(fs, YIndex) = "file") => result.exists

\* C5 amended: a reference ending in "/" yields a path whose last segment
\* is index.html unless a filesystem probe raised (the raw reference is
\* returned then); /pages/y/ with the file pages/y/index.html present in a
\* searchable directory is reported as existing.
C5_IndexUnlessRaised ==
    rpc # "call" =>
      /\ (endswith(path, "/") /\ ~result.caught) => Name(result.resolved) = "index.html"
      /\ (path = RefPagesY /\ Kind(fs, YIndex) = "file" /\ Kind(fs, YDir) = "dir")
           => result.exists

C5_Witness ==
    /\ rpc = "returned"
    /\ path = RefPagesY
    /\ Kind(fs, YIndex) = "file"
    /\ Kind(fs, YDir) = "dir"
    /\ result.exists
    /\ result.resolved.parts = YIndex

\* C6: when no exception is raised, the final path is the joined path plus
\* exactly one index.html if the reference ends in "/" or the joined path
\* is an existing directory, and the joined path itself otherwise.
C6_SingleIndex ==
    (rpc # "call" /\ ~result.caught) =>
      IF endswith(path, "/") \/ Stat(fs, joined) \in {"dir", "locked"}
      THEN result.resolved = PathJoin(joined, <<"index.html">>)
      ELSE result.resolved = joined

\* C7: the call never raises; exists implies the final path is on disk; an
\* absent target gives (false, resolved path); a failed probe gives
\* (false, raw reference).
C7_FailsClosed ==
    rpc # "call" =>
      /\ rpc = "returned"
      /\ ~result.propagated
      /\ result.exists => Present(fs, result.resolved)
      /\ ~result.caught =>
           /\ result.resolved.anchor = "/"
           /\ ~Present(fs, result.resolved) => ~result.exists
           /\ (~endswith(path, "/") /\ Stat(fs, joined) = "absent")
                => (result.resolved = joined /\ ~result.exists)
      /\ result.caught =>
           /\ ~result.exists
           /\ result.resolved = PathOf(path)
      /\ result.caught <=>
           /\ fs.strict
           /\ \E p \in {WithTrailingSlash(path, joined),
                        PathJoin(WithTrailingSlash(path, joined), <<"index.html">>)} :
                Stat(fs, p) = "EACCES"

C7_Witness ==
    /\ rpc = "returned"
    /\ result.caught
    /\ ~result.exists
    /\ result.resolved = PathOf(path)
    /\ endswith(path, "/")

\* a step that is a call of check_file_exists
IsCall == rpc' # rpc

\* the reference names the directory pages/y of the page's parent
RefUpY == <<"..", "/", "y">>

=============================================================================
